---- MODULE Spec2Model ----
(***************************************************************************)
(* Bill import of medix-backend.                                           *)
(*   Spec, SpecConc  confirmImport of                                      *)
(*                   src/controllers/billImport.controller.ts (the version *)
(*                   that fills empty prices), run by one request at a     *)
(*                   time or by two concurrent requests against one        *)
(*                   product table                                         *)
(*   SpecImport      importBill of the same file, with                     *)
(*                   extractTextFromImage and parseBillText of             *)
(*                   src/services/openRouterExtraction.service.ts          *)
(*   SpecExpiry      one call of parseExpiryDate                           *)
(*                                                                         *)
(* JavaScript values are represented as follows.                           *)
(*   string            a TLA+ string; names and expiry texts, which the    *)
(*                     code inspects character by character, are tuples of *)
(*                     one-character strings                               *)
(*   null / undefined  the reserved strings Null and Undefined, which no   *)
(*                     input string equals                                 *)
(*   number-like input <<"num", n>>, <<"str", chars>> or <<"undef">>       *)
(*   Date              <<year, month, day>>; no date (null, undefined) is  *)
(*                     the empty tuple                                     *)
(***************************************************************************)
EXTENDS Integers, Sequences, FiniteSets, TLC

VARIABLES
    store,             \* the product table: rows in insertion order, id = index
    active,            \* the request slots that serve requests
    budget,            \* items that may still be submitted
    pc,                \* per request: "idle", "find", "write" or "done"
    reqStore,          \* per request: req.storeId
    items,             \* per request: req.body.items
    k,                 \* per request: index of the item the loop is at
    created,           \* per request: let created
    updated,           \* per request: let updated
    exactBatchMatch,   \* per request: <<>> or <<the row find() picked>>
    blueprint,         \* per request: <<>> or <<existingProducts[0]>>
    response,          \* per request: what res.status(..).json(..) sent
    store0,            \* per request: the table when the request arrived (history)
    ibPc,              \* importBill: "idle", "extract", "parse" or "done"
    mimeType,          \* importBill: req.file.mimetype, "" without a file
    files,             \* importBill: the paths that exist on disk
    tempImages,        \* importBill: const tempImages, the page image paths
    page,              \* importBill: index of the page the loop is at
    text,              \* importBill: const text of the page the loop is at
    allItems,          \* importBill: let allItems
    invoiceData,       \* importBill: let invoiceData
    ibResponse,        \* importBill: what res.status(..).json(..) sent
    parsedPages,       \* importBill: what parseBillText got and returned, per page (history)
    dateArg,           \* parseExpiryDate: its argument dateStr
    expiry             \* parseExpiryDate: <<>> before the call, <<its result>> after

\* the state of confirmImport, of importBill and of a call of parseExpiryDate
confirmVars == <<store, active, budget, pc, reqStore, items, k, created, updated,
                 exactBatchMatch, blueprint, response, store0>>

importVars == <<ibPc, mimeType, files, tempImages, page, text, allItems, invoiceData,
                ibResponse, parsedPages>>

expiryVars == <<dateArg, expiry>>

vars == <<confirmVars, importVars, expiryVars>>

(***************************************************************************)
(* Bounds                                                                  *)
(***************************************************************************)
\* items submitted in total when requests are served one at a time
MaxImported == 3
\* items submitted in total when two requests are served concurrently
MaxConcImported == 2

Procs == {1, 2}

(***************************************************************************)
(* JavaScript helpers                                                      *)
(***************************************************************************)
Null == "<null>"
Undefined == "<undefined>"
NoDate == <<>>

\* truthiness of a string-or-null value: '', null and undefined are falsy
Truthy(s) == s \notin {"", Null, Undefined}

\* a || b
Or(a, b) == IF Truthy(a) THEN a ELSE b

Digits == <<"0", "1", "2", "3", "4", "5", "6", "7", "8", "9">>

IsDigit(c) == \E d \in DOMAIN Digits : Digits[d] = c

DigitVal(c) == (CHOOSE d \in DOMAIN Digits : Digits[d] = c) - 1

\* the value of a non-empty run of decimal digits
RECURSIVE DecimalValue(_)
DecimalValue(cs) ==
    IF cs = <<>> THEN 0
    ELSE 10 * DecimalValue(SubSeq(cs, 1, Len(cs) - 1)) + DigitVal(cs[Len(cs)])

AllDigits(cs) == \A i \in DOMAIN cs : IsDigit(cs[i])

NaN == <<"nan">>

\* Number(x): a number is itself, '' is 0, an optionally signed run of digits is
\* its value, any other string and undefined are NaN
Number(x) ==
    CASE x[1] = "num" -> x
      [] x[1] = "str" ->
            LET cs == x[2] IN
            IF cs = <<>> THEN <<"num", 0>>
            ELSE IF AllDigits(cs) THEN <<"num", DecimalValue(cs)>>
            ELSE IF Len(cs) > 1 /\ cs[1] = "-" /\ AllDigits(Tail(cs))
                 THEN <<"num", 0 - DecimalValue(Tail(cs))>>
            ELSE NaN
      [] OTHER -> NaN

\* Number(x) || 0: NaN and 0 are falsy
NumberOrZero(x) == LET n == Number(x) IN IF n = NaN THEN 0 ELSE n[2]

\* parseInt of a run of digits (the regular expressions admit nothing else)
ParseInt(cs) == DecimalValue(cs)

LowerCase == [c \in {"A", "B", "I", "P"} |->
                CASE c = "A" -> "a" [] c = "B" -> "b" [] c = "I" -> "i" [] c = "P" -> "p"]

ToLower(s) == [i \in DOMAIN s |-> IF s[i] \in DOMAIN LowerCase THEN LowerCase[s[i]] ELSE s[i]]

\* Prisma { equals: name, mode: 'insensitive' }
EqualsInsensitive(a, b) == ToLower(a) = ToLower(b)

(***************************************************************************)
(* parseExpiryDate                                                         *)
(***************************************************************************)
\* new Date(year, monthIndex, 1): years 0..99 mean 1900..1999, and a month index
\* outside 0..11 carries into the year
DateOf(year, monthIndex) ==
    LET y == IF year >= 0 /\ year <= 99 THEN 1900 + year ELSE year
    IN <<y + (monthIndex \div 12), (monthIndex % 12) + 1, 1>>

IsSep(c) == c \in {"/", "-"}

\* /^(\d{1,2})[\/\-](\d{2})$/
ShortMatch(cs) ==
    \/ Len(cs) = 4 /\ IsDigit(cs[1]) /\ IsSep(cs[2]) /\ IsDigit(cs[3]) /\ IsDigit(cs[4])
    \/ Len(cs) = 5 /\ IsDigit(cs[1]) /\ IsDigit(cs[2]) /\ IsSep(cs[3])
                   /\ IsDigit(cs[4]) /\ IsDigit(cs[5])

\* /^(\d{4})-(\d{1,2})$/
IsoMatch(cs) ==
    /\ Len(cs) \in {6, 7}
    /\ \A i \in 1..4 : IsDigit(cs[i])
    /\ cs[5] = "-"
    /\ \A i \in 6..Len(cs) : IsDigit(cs[i])

DaysIn(y, m) ==
    IF m \in {4, 6, 9, 11} THEN 30
    ELSE IF m # 2 THEN 31
    ELSE IF (y % 4 = 0 /\ y % 100 # 0) \/ y % 400 = 0 THEN 29 ELSE 28

\* new Date(dateStr) for the texts neither pattern matches: a full YYYY-MM-DD date
\* is that date, any other text drawn here is an Invalid Date
NativeDate(cs) ==
    IF /\ Len(cs) = 10
       /\ \A i \in {1, 2, 3, 4, 6, 7, 9, 10} : IsDigit(cs[i])
       /\ cs[5] = "-" /\ cs[8] = "-"
    THEN LET y == ParseInt(SubSeq(cs, 1, 4))
             m == ParseInt(SubSeq(cs, 6, 7))
             d == ParseInt(SubSeq(cs, 9, 10))
         IN IF m \in 1..12 /\ d >= 1 /\ d <= DaysIn(y, m) THEN <<y, m, d>> ELSE NoDate
    ELSE NoDate

parseExpiryDate(dateStr) ==
    IF dateStr = <<>> THEN NoDate
    ELSE IF ShortMatch(dateStr)
    THEN LET n == Len(dateStr)
             month == ParseInt(SubSeq(dateStr, 1, n - 3))
             yy == ParseInt(SubSeq(dateStr, n - 1, n))
             year == IF yy < 50 THEN 2000 + yy ELSE 1900 + yy
         IN DateOf(year, month - 1)
    ELSE IF IsoMatch(dateStr)
    THEN DateOf(ParseInt(SubSeq(dateStr, 1, 4)),
                ParseInt(SubSeq(dateStr, 6, Len(dateStr))) - 1)
    ELSE NativeDate(dateStr)

(***************************************************************************)
(* Data: product rows, request items                                       *)
(***************************************************************************)
StoreIds == {"S1"}

Pa == <<"P", "a">>
PA == <<"P", "A">>
Ib == <<"I", "b">>

\* "05/26" and "2025-11"
Exp0526 == <<"0", "5", "/", "2", "6">>
Exp202511 == <<"2", "0", "2", "5", "-", "1", "1">>

\* the (name, batch number) pairs of the bill lines: a batch number, the empty
\* batch number, and a batch number sent as JSON null; the names differ in case
\* from the stored ones
ItemKeys == { <<Pa, "B1">>, <<PA, "">>, <<PA, Null>> }

\* what one bill line can carry besides its name and batch: quantity, mrp, rate,
\* expiry_date and supplier as numbers, as numeric text, and as what a careless
\* bill leaves (non-numeric text, a negative number, missing fields)
ItemValues ==
    { [quantity |-> <<"num", 1>>, mrp |-> <<"num", 5>>, rate |-> <<"num", 3>>,
       expiry_date |-> Exp0526, supplier |-> "Acme"],
      [quantity |-> <<"str", <<"2">>>>, mrp |-> <<"str", <<"7">>>>, rate |-> <<"num", 4>>,
       expiry_date |-> Exp202511, supplier |-> "Zed"],
      [quantity |-> <<"str", <<"x">>>>, mrp |-> <<"num", -1>>, rate |-> <<"undef">>,
       expiry_date |-> <<>>, supplier |-> Undefined] }

ItemUniverse ==
    { [medicine_name |-> key[1], batch_number |-> key[2], quantity |-> v.quantity,
       mrp |-> v.mrp, rate |-> v.rate, expiry_date |-> v.expiry_date,
       supplier |-> v.supplier] :
      key \in ItemKeys, v \in ItemValues }

ItemLists(n) == UNION { [1..m -> ItemUniverse] : m \in 0..n }

Row(id, sid, name, batch, qty, exp, mrp, cost, sell, manu, cat, unit, reorder) ==
    [id |-> id, storeId |-> sid, name |-> name, batchNumber |-> batch, quantity |-> qty,
     expiryDate |-> exp, mrp |-> mrp, costPrice |-> cost, sellingPrice |-> sell,
     manufacturer |-> manu, category |-> cat, unit |-> unit, reorderLevel |-> reorder,
     description |-> "seed"]

\* the tables a request can find: one with a single batch of another medicine;
\* one with a family of two batches that differ in category, unit and reorder
\* level (the first without prices, expiry or manufacturer yet, the second with
\* all of them and a batch number no bill line carries) next to a batch of the
\* same name in another store
InitStores ==
    { << Row(1, "S1", Ib, "B1", 3, NoDate, 2, 1, 2, Null, "SYRUP", "ml", 4) >>,
      << Row(1, "S1", PA, "B1", 4, NoDate, 0, 0, 0, Null, "TABLET", "strip", 5),
         Row(2, "S1", Pa, "B9", 0, <<2030, 1, 1>>, 9, 6, 8, "Old", "CAPSULE", "box", 7),
         Row(3, "S2", Pa, Null, 6, NoDate, 0, 0, 0, Null, "DROPS", "ml", 2) >> }

NoResponse == [status |-> 0, success |-> FALSE, message |-> <<>>]

TypeOK ==
    /\ active \subseteq Procs
    /\ budget \in Nat
    /\ \A p \in Procs : pc[p] \in {"idle", "find", "write", "done"}
    /\ \A i \in DOMAIN store : store[i].id = i

(***************************************************************************)
(* confirmImport                                                           *)
(***************************************************************************)
DefaultCategory == "MEDICINE"
DefaultUnit == "pcs"
DefaultReorderLevel == 10

\* Prisma turns an undefined field of create into the column's NULL
Column(v) == IF v = Undefined THEN Null ELSE v

\* Prisma leaves a column alone when the field of update is undefined
Assign(old, v) == IF v = Undefined THEN old ELSE v

AssignDate(old, d) == IF d = NoDate THEN old ELSE d

\* item.expiry_date ? parseExpiryDate(item.expiry_date) : undefined
ExpiryValue(item) ==
    IF item.expiry_date # <<>> THEN parseExpiryDate(item.expiry_date) ELSE NoDate

\* const existing = x ? Number(x) : 0
ExistingNumber(x) == IF x # 0 THEN x ELSE 0

\* a lookup that is not confined to the request's store
FamilyAnyStore(tbl, sid, name) ==
    { i \in DOMAIN tbl : EqualsInsensitive(tbl[i].name, name) }

\* the rows findMany returns: same store, same name ignoring case
Family(tbl, sid, name) ==
    { i \in DOMAIN tbl : tbl[i].storeId = sid /\ EqualsInsensitive(tbl[i].name, name) }

\* a lookup that never recognises a batch
BatchEqualsNever(rowBatch, batch) == FALSE

\* p.batchNumber === batch
BatchEquals(rowBatch, batch) == rowBatch = batch

\* a stock update that forgets what was in stock
NewQuantityOverwrite(existingQty, quantityValue) == quantityValue

\* quantity: existingQty + quantityValue
NewQuantity(existingQty, quantityValue) == existingQty + quantityValue

\* a price update that always takes the bill's price
FillPriceOverwrite(existing, value) == value

\* existing > 0 ? existing : value
FillPrice(existing, value) == IF existing > 0 THEN existing ELSE value

\* the data of prisma.product.update, computed from the row findMany returned
UpdateData(m, item) ==
    LET mrpValue == NumberOrZero(item.mrp)
        costPriceValue == NumberOrZero(item.rate)
        quantityValue == NumberOrZero(item.quantity)
        existingMrp == ExistingNumber(m.mrp)
        existingCostPrice == ExistingNumber(m.costPrice)
        existingSellingPrice == ExistingNumber(m.sellingPrice)
        existingQty == ExistingNumber(m.quantity)
    IN [quantity |-> NewQuantity(existingQty, quantityValue),
        mrp |-> FillPrice(existingMrp, mrpValue),
        costPrice |-> FillPrice(existingCostPrice, costPriceValue),
        sellingPrice |-> FillPrice(existingSellingPrice, mrpValue),
        batchNumber |-> Or(m.batchNumber, Or(item.batch_number, Undefined)),
        expiryDate |-> IF m.expiryDate # NoDate THEN m.expiryDate ELSE ExpiryValue(item),
        manufacturer |-> Or(m.manufacturer, Or(item.supplier, Undefined))]

\* prisma.product.update({ where: { id }, data })
ApplyUpdate(row, data) ==
    [row EXCEPT !.quantity = data.quantity,
                !.mrp = data.mrp,
                !.costPrice = data.costPrice,
                !.sellingPrice = data.sellingPrice,
                !.batchNumber = Assign(@, data.batchNumber),
                !.expiryDate = AssignDate(@, data.expiryDate),
                !.manufacturer = Assign(@, data.manufacturer)]

\* a new batch that never looks at the blueprint for its unit
BlueprintUnitDefault(bp) == DefaultUnit

\* blueprint ? blueprint.category : 'MEDICINE', and so for unit and reorderLevel
BlueprintCategory(bp) == IF bp # <<>> THEN bp[1].category ELSE DefaultCategory
BlueprintUnit(bp) == IF bp # <<>> THEN bp[1].unit ELSE DefaultUnit
BlueprintReorderLevel(bp) == IF bp # <<>> THEN bp[1].reorderLevel ELSE DefaultReorderLevel

\* a new batch sold at what it cost
SellingPriceFromRate(item) == NumberOrZero(item.rate)

\* sellingPrice: mrpValue
NewSellingPrice(item) == NumberOrZero(item.mrp)

\* the row prisma.product.create inserts; bp is <<>> or <<existingProducts[0]>>
NewRow(id, sid, item, bp) ==
    [id |-> id,
     storeId |-> sid,
     name |-> item.medicine_name,
     quantity |-> NumberOrZero(item.quantity),
     batchNumber |-> Column(Or(item.batch_number, Undefined)),
     expiryDate |-> ExpiryValue(item),
     mrp |-> NumberOrZero(item.mrp),
     costPrice |-> NumberOrZero(item.rate),
     sellingPrice |-> NewSellingPrice(item),
     manufacturer |-> Column(Or(item.supplier, Undefined)),
     category |-> BlueprintCategory(bp),
     unit |-> BlueprintUnit(bp),
     reorderLevel |-> BlueprintReorderLevel(bp),
     description |-> "Imported from Supplier Bill"]

\* an insert that a unique key on (store, name, batch number) turns into nothing
InsertUnlessPresent(tbl, row) ==
    IF \E i \in DOMAIN tbl :
            /\ tbl[i].storeId = row.storeId
            /\ EqualsInsensitive(tbl[i].name, row.name)
            /\ tbl[i].batchNumber = row.batchNumber
    THEN tbl
    ELSE Append(tbl, row)

\* prisma.product.create: the table has no unique key the new row could break
Insert(tbl, row) == Append(tbl, row)

\* a success message with the two counts swapped
SuccessResponseSwapped(c, u) ==
    [status |-> 200, success |-> TRUE,
     message |-> <<"Import confirmed. ", u, " new batches, ", c, " stock updates.">>]

\* `Import confirmed. ${created} new batches, ${updated} stock updates.`
SuccessResponse(c, u) ==
    [status |-> 200, success |-> TRUE,
     message |-> <<"Import confirmed. ", c, " new batches, ", u, " stock updates.">>]

\* a failure message that reports how far the import got
FailureResponseWithCounts(c, u) ==
    [status |-> 500, success |-> FALSE, message |-> <<"Failed to save inventory", c, u>>]

\* the catch block: the counts are in scope but not sent
FailureResponse(c, u) ==
    [status |-> 500, success |-> FALSE, message |-> <<"Failed to save inventory">>]

InvalidResponse == [status |-> 400, success |-> FALSE, message |-> <<"Invalid request">>]

\* a request arrives with a store id and an item list: the loop starts, or, with
\* no item, the response is sent at once
Start(p) ==
    /\ p \in active
    /\ pc[p] \in {"idle", "done"}
    /\ \E sid \in StoreIds, its \in ItemLists(budget) :
        /\ budget' = budget - Len(its)
        /\ reqStore' = [reqStore EXCEPT ![p] = sid]
        /\ items' = [items EXCEPT ![p] = its]
        /\ pc' = [pc EXCEPT ![p] = IF its = <<>> THEN "done" ELSE "find"]
        /\ response' = [response EXCEPT ![p] =
                            IF its = <<>> THEN SuccessResponse(0, 0) ELSE NoResponse]
    /\ k' = [k EXCEPT ![p] = 1]
    /\ created' = [created EXCEPT ![p] = 0]
    /\ updated' = [updated EXCEPT ![p] = 0]
    /\ exactBatchMatch' = [exactBatchMatch EXCEPT ![p] = <<>>]
    /\ blueprint' = [blueprint EXCEPT ![p] = <<>>]
    /\ store0' = [store0 EXCEPT ![p] = store]
    /\ UNCHANGED <<store, active>>
    /\ UNCHANGED <<importVars, expiryVars>>

\* a request without a store id or whose items are no array
InvalidRequest(p) ==
    /\ p \in active
    /\ pc[p] \in {"idle", "done"}
    /\ pc' = [pc EXCEPT ![p] = "done"]
    /\ response' = [response EXCEPT ![p] = InvalidResponse]
    /\ items' = [items EXCEPT ![p] = <<>>]
    /\ k' = [k EXCEPT ![p] = 1]
    /\ created' = [created EXCEPT ![p] = 0]
    /\ updated' = [updated EXCEPT ![p] = 0]
    /\ exactBatchMatch' = [exactBatchMatch EXCEPT ![p] = <<>>]
    /\ blueprint' = [blueprint EXCEPT ![p] = <<>>]
    /\ store0' = [store0 EXCEPT ![p] = store]
    /\ UNCHANGED <<store, active, budget, reqStore>>
    /\ UNCHANGED <<importVars, expiryVars>>

\* await prisma.product.findMany(..) and existingProducts.find(..): the table
\* returns the family in no promised order, so find() may pick any row whose
\* batch number equals the item's, and existingProducts[0] may be any row
FindMany(p) ==
    /\ p \in active
    /\ pc[p] = "find"
    /\ LET item == items[p][k[p]]
           fam == Family(store, reqStore[p], item.medicine_name)
           hits == { i \in fam : BatchEquals(store[i].batchNumber, item.batch_number) }
       IN IF hits # {}
          THEN /\ \E i \in hits : exactBatchMatch' = [exactBatchMatch EXCEPT ![p] = <<store[i]>>]
               /\ blueprint' = [blueprint EXCEPT ![p] = <<>>]
          ELSE /\ exactBatchMatch' = [exactBatchMatch EXCEPT ![p] = <<>>]
               /\ IF fam = {}
                  THEN blueprint' = [blueprint EXCEPT ![p] = <<>>]
                  ELSE \E i \in fam : blueprint' = [blueprint EXCEPT ![p] = <<store[i]>>]
    /\ pc' = [pc EXCEPT ![p] = "write"]
    /\ UNCHANGED <<store, active, budget, reqStore, items, k, created, updated,
                   response, store0>>
    /\ UNCHANGED <<importVars, expiryVars>>

\* after the write of the last item the loop ends and the success response is sent
Advance(p, c, u) ==
    /\ created' = [created EXCEPT ![p] = c]
    /\ updated' = [updated EXCEPT ![p] = u]
    /\ k' = [k EXCEPT ![p] = @ + 1]
    /\ exactBatchMatch' = [exactBatchMatch EXCEPT ![p] = <<>>]
    /\ blueprint' = [blueprint EXCEPT ![p] = <<>>]
    /\ IF k[p] = Len(items[p])
       THEN /\ pc' = [pc EXCEPT ![p] = "done"]
            /\ response' = [response EXCEPT ![p] = SuccessResponse(c, u)]
       ELSE /\ pc' = [pc EXCEPT ![p] = "find"]
            /\ UNCHANGED response

\* await prisma.product.update(..); updated++
Update(p) ==
    /\ p \in active
    /\ pc[p] = "write"
    /\ exactBatchMatch[p] # <<>>
    /\ LET m == exactBatchMatch[p][1]
           data == UpdateData(m, items[p][k[p]])
       IN store' = [store EXCEPT ![m.id] = ApplyUpdate(@, data)]
    /\ Advance(p, created[p], updated[p] + 1)
    /\ UNCHANGED <<active, budget, reqStore, items, store0>>
    /\ UNCHANGED <<importVars, expiryVars>>

\* await prisma.product.create(..); created++
Create(p) ==
    /\ p \in active
    /\ pc[p] = "write"
    /\ exactBatchMatch[p] = <<>>
    /\ store' = Insert(store, NewRow(Len(store) + 1, reqStore[p], items[p][k[p]], blueprint[p]))
    /\ Advance(p, created[p] + 1, updated[p])
    /\ UNCHANGED <<active, budget, reqStore, items, store0>>
    /\ UNCHANGED <<importVars, expiryVars>>

\* findMany, update or create rejects: the catch block answers 500
PersistenceFails(p) ==
    /\ p \in active
    /\ pc[p] \in {"find", "write"}
    /\ pc' = [pc EXCEPT ![p] = "done"]
    /\ response' = [response EXCEPT ![p] = FailureResponse(created[p], updated[p])]
    /\ exactBatchMatch' = [exactBatchMatch EXCEPT ![p] = <<>>]
    /\ blueprint' = [blueprint EXCEPT ![p] = <<>>]
    /\ UNCHANGED <<store, active, budget, reqStore, items, k, created, updated, store0>>
    /\ UNCHANGED <<importVars, expiryVars>>

(***************************************************************************)
(* parseBillText: decoding of the parsing model's reply                     *)
(*                                                                         *)
(* A value of the decoded JSON is <<"num", n>>, <<"str", chars>>,           *)
(* <<"arr", elements>>, <<"null">> or, for a missing property, <<"undef">>. *)
(* The reply text is a sequence of tokens: the two fences (plain and        *)
(* labelled json), the braces, the members of a JSON object, and prose.     *)
(***************************************************************************)
JsUndefined == <<"undef">>
JsNull == <<"null">>
Str(cs) == <<"str", cs>>
Num(n) == <<"num", n>>

\* truthiness of a decoded value: 0, '', null and undefined are falsy
JsTruthy(v) ==
    CASE v[1] = "num" -> v[2] # 0
      [] v[1] = "str" -> v[2] # <<>>
      [] v[1] = "arr" -> TRUE
      [] OTHER -> FALSE

\* a || b on decoded values
JsOr(a, b) == IF JsTruthy(a) THEN a ELSE b

RECURSIVE NatToString(_)
NatToString(n) ==
    IF n < 10 THEN <<Digits[n + 1]>>
    ELSE NatToString(n \div 10) \o <<Digits[(n % 10) + 1]>>

\* String(v) of a number or a string
String(v) ==
    CASE v[1] = "str" -> v[2]
      [] v[1] = "num" -> IF v[2] < 0 THEN <<"-">> \o NatToString(0 - v[2])
                         ELSE NatToString(v[2])
      [] v[1] = "null" -> <<"n", "u", "l", "l">>
      [] OTHER -> <<"u", "n", "d", "e", "f", "i", "n", "e", "d">>

\* the three backquotes that open or close a block, and those labelled json
Fence == <<"fence">>
FenceJson == <<"fence json">>
OpenBrace == <<"{">>
CloseBrace == <<"}">>
Prose == <<"prose">>
Members(obj) == <<"members", obj>>

IsFence(tok) == tok[1] \in {"fence", "fence json"}

SetMin(S) == CHOOSE x \in S : \A y \in S : x <= y
SetMax(S) == CHOOSE x \in S : \A y \in S : x >= y

\* jsonStr.match(/<opener>\s*([\s\S]*?)\s*<fence>/): the leftmost opener that has a
\* fence after it, and the text up to the nearest such fence; <<>> is no match
FenceMatch(toks, openers) ==
    LET starts == { i \in DOMAIN toks :
                      /\ toks[i][1] \in openers
                      /\ \E j \in DOMAIN toks : j > i /\ IsFence(toks[j]) }
    IN IF starts = {} THEN <<>>
       ELSE LET i == SetMin(starts)
                j == SetMin({ j \in DOMAIN toks : j > i /\ IsFence(toks[j]) })
                inner == SubSeq(toks, i + 1, j - 1)
            IN IF toks[i][1] = "fence json" /\ "fence json" \notin openers
               THEN << <<Prose>> \o inner >>
               ELSE << inner >>

\* the match of the json-labelled block, or else that of any block
JsonMatch(toks) ==
    IF FenceMatch(toks, {"fence json"}) # <<>> THEN FenceMatch(toks, {"fence json"})
    ELSE FenceMatch(toks, {"fence"})

\* jsonStr.substring(from, to) with positions counted from 1 and to inclusive:
\* the arguments are swapped when the first is the larger
Substring(toks, firstBrace, lastBrace) ==
    IF firstBrace <= lastBrace THEN SubSeq(toks, firstBrace, lastBrace)
    ELSE SubSeq(toks, lastBrace + 1, firstBrace - 1)

\* the text handed to JSON.parse
JsonStr(content) ==
    LET jsonStr == IF content = <<>> THEN <<OpenBrace, CloseBrace>> ELSE content
        jsonMatch == JsonMatch(jsonStr)
        opens == { i \in DOMAIN jsonStr : jsonStr[i][1] = "{" }
        closes == { i \in DOMAIN jsonStr : jsonStr[i][1] = "}" }
    IN IF jsonMatch # <<>> THEN jsonMatch[1]
       ELSE IF opens # {} /\ closes # {}
            THEN Substring(jsonStr, SetMin(opens), SetMax(closes))
            ELSE jsonStr

\* the object {} : every property missing
EmptyObject ==
    [invoiceNumber |-> JsUndefined, invoiceDate |-> JsUndefined,
     supplierName |-> JsUndefined, totalAmount |-> JsUndefined, items |-> JsUndefined]

\* JSON.parse: <<"object", obj>>, or <<"error">> for a SyntaxError
JsonParse(toks) ==
    IF Len(toks) = 2 /\ toks[1][1] = "{" /\ toks[2][1] = "}"
    THEN <<"object", EmptyObject>>
    ELSE IF Len(toks) = 3 /\ toks[1][1] = "{" /\ toks[2][1] = "members" /\ toks[3][1] = "}"
    THEN <<"object", toks[2][2]>>
    ELSE <<"error">>

\* one element of parsed.items, normalized
NormalizeItem(item) ==
    [medicine_name |-> String(JsOr(JsOr(item.medicine_name, item.productName), Str(<<>>))),
     quantity |-> NumberOrZero(item.quantity),
     batch_number |-> String(JsOr(JsOr(item.batch_number, item.batchNumber), Str(<<>>))),
     expiry_date |-> String(JsOr(JsOr(item.expiry_date, item.expiryDate), Str(<<>>))),
     mrp |-> NumberOrZero(item.mrp),
     rate |-> NumberOrZero(item.rate)]

\* return { items: [] } of the catch block
CatchResult ==
    [invoiceNumber |-> JsUndefined, invoiceDate |-> JsUndefined,
     supplierName |-> JsUndefined, totalAmount |-> JsUndefined, items |-> <<>>]

\* the body of the try block once the model has replied with content
Decode(content) ==
    LET r == JsonParse(JsonStr(content))
    IN IF r[1] = "error" THEN CatchResult
       ELSE LET parsed == r[2]
            IN IF JsTruthy(parsed.items) /\ parsed.items[1] # "arr"
               THEN CatchResult          \* .map is not a function
               ELSE [invoiceNumber |-> parsed.invoiceNumber,
                     invoiceDate |-> parsed.invoiceDate,
                     supplierName |-> parsed.supplierName,
                     totalAmount |-> Num(NumberOrZero(parsed.totalAmount)),
                     items |-> IF JsTruthy(parsed.items)
                               THEN [i \in DOMAIN parsed.items[2] |->
                                        NormalizeItem(parsed.items[2][i])]
                               ELSE <<>>]

Rejected == <<"rejected">>
Replied(content) == <<"replied", content>>

\* parseBillText: the request to the model is inside the try block, so a
\* request that fails ends in the catch block like a reply that does not parse
parseBillText(outcome) ==
    IF outcome[1] = "rejected" THEN CatchResult ELSE Decode(outcome[2])

(***************************************************************************)
(* Data: what the models answer                                             *)
(***************************************************************************)
\* pages a converted PDF can have
MaxPages == 3

\* the text the vision model returns for a page ('' when it carries none)
Texts == {"", "bill text"}

RawItem(name, productName, quantity, batch, batchNumber, exp, expiryDate, mrp, rate) ==
    [medicine_name |-> name, productName |-> productName, quantity |-> quantity,
     batch_number |-> batch, batchNumber |-> batchNumber,
     expiry_date |-> exp, expiryDate |-> expiryDate, mrp |-> mrp, rate |-> rate]

\* a line as the prompt asks for it
LineCanonical ==
    RawItem(Str(Pa), JsUndefined, Num(10), Str(<<"B", "1">>), JsUndefined,
            Str(Exp0526), JsUndefined, Num(5), Num(3))

\* a line with the alternate spellings, numeric text, and a number as batch
LineAlternate ==
    RawItem(JsUndefined, Str(Ib), Str(<<"1", "0">>), JsUndefined, Num(42),
            JsNull, Str(Exp202511), Str(<<"5", "0">>), Str(<<>>))

\* a line with a negative quantity and price, non-numeric text and nothing else
LineCareless ==
    RawItem(JsUndefined, JsUndefined, Num(-2), JsUndefined, JsUndefined,
            JsUndefined, JsUndefined, Str(<<"-", "7">>), Str(<<"x">>))

Bill(invoiceNumber, invoiceDate, supplierName, totalAmount, lines) ==
    [invoiceNumber |-> invoiceNumber, invoiceDate |-> invoiceDate,
     supplierName |-> supplierName, totalAmount |-> totalAmount, items |-> lines]

\* a page with all the invoice metadata
BillFull ==
    Bill(Str(<<"I", "1">>), Str(<<"0", "1", "-", "0", "2">>), Str(<<"A", "c">>),
         Num(100), <<"arr", <<LineCanonical>>>>)

\* a page that names the supplier and the total but carries no invoice number
BillNoNumber ==
    Bill(JsUndefined, JsUndefined, Str(<<"Z", "e">>), Str(<<"5", "0">>),
         <<"arr", <<LineAlternate, LineCareless>>>>)

\* a later page with an invoice number of its own and no item array
BillOther ==
    Bill(Str(<<"I", "2">>), JsNull, Str(<<"B", "e">>), Num(7), JsUndefined)

\* a continuation page: lines only
BillLinesOnly ==
    Bill(JsUndefined, JsUndefined, JsUndefined, JsUndefined, <<"arr", <<LineCanonical>>>>)

\* the replies of the parsing model: JSON in a json-labelled block, bare JSON, JSON
\* inside prose, JSON in an unlabeled block, prose without braces, JSON cut short,
\* and no content at all
Contents ==
    { <<FenceJson, OpenBrace, Members(BillFull), CloseBrace, Fence>>,
      <<OpenBrace, Members(BillNoNumber), CloseBrace>>,
      <<Prose, OpenBrace, Members(BillOther), CloseBrace, Prose>>,
      <<Prose, Fence, OpenBrace, Members(BillLinesOnly), CloseBrace, Fence>>,
      <<Prose>>,
      <<OpenBrace, Members(BillFull)>>,
      <<>> }

\* what a call of the parsing model ends in
ParseOutcomes == {Rejected} \cup { Replied(c) : c \in Contents }

(***************************************************************************)
(* importBill                                                              *)
(***************************************************************************)
\* req.file.path; the page images of a PDF are the paths 1, 2, ..
filePath == 0

\* let invoiceData = {}
NoInvoice ==
    [invoiceNumber |-> JsUndefined, invoiceDate |-> JsUndefined,
     supplierName |-> JsUndefined, totalAmount |-> JsUndefined]

\* allItems.push(...parsed.items)
AccumulatePrepend(all, parsedItems) == parsedItems \o all

Accumulate(all, parsedItems) == all \o parsedItems

\* if (!invoiceData.invoiceNumber && parsed.invoiceNumber) invoiceData = {..}
Adopt(data, parsed) ==
    IF ~JsTruthy(data.invoiceNumber) /\ JsTruthy(parsed.invoiceNumber)
    THEN [invoiceNumber |-> parsed.invoiceNumber, invoiceDate |-> parsed.invoiceDate,
          supplierName |-> parsed.supplierName, totalAmount |-> parsed.totalAmount]
    ELSE data

\* normalizeMedicineName of medicineNormalize.service, which is not part of
\* these sources: some canonical form of the name, here its lower case
normalizeMedicineName(name) == ToLower(name)

\* allItems.map(item => ({...item, original_name, medicine_name}))
NormalizedItems(all) ==
    [i \in DOMAIN all |->
        [medicine_name |-> normalizeMedicineName(all[i].medicine_name),
         original_name |-> all[i].medicine_name,
         quantity |-> all[i].quantity,
         batch_number |-> all[i].batch_number,
         expiry_date |-> all[i].expiry_date,
         mrp |-> all[i].mrp,
         rate |-> all[i].rate]]

ImportSucceeded(all, data) ==
    [status |-> 200, success |-> TRUE, data |-> NormalizedItems(all), invoice |-> data]

ImportFailedWithItems(all, message) ==
    [status |-> 500, success |-> FALSE, message |-> message, data |-> NormalizedItems(all)]

\* the outer catch block: the error's message and nothing else
ImportFailed(all, message) == [status |-> 500, success |-> FALSE, message |-> message]

NoFileUploaded == [status |-> 400, success |-> FALSE, message |-> "No file uploaded"]

UnsupportedFileType == "Unsupported file type"
ExtractionFailed == "Failed to extract text from image using OpenRouter"
\* the messages of errors raised outside these sources: by the PDF converter
\* and by fs.readFileSync
ConvertErrors == {"pdf conversion failed"}
ReadErrors == {"ENOENT"}

\* mimeType.startsWith('image/'), and the types that are neither that nor a PDF
ImageTypes == {"image/png", "image/jpeg"}
OtherTypes == {"text/plain"}

\* a request without a file
NoFile ==
    /\ ibPc = "idle"
    /\ ibPc' = "done"
    /\ ibResponse' = NoFileUploaded
    /\ UNCHANGED <<mimeType, files, tempImages, page, text, allItems, invoiceData, parsedPages>>
    /\ UNCHANGED <<confirmVars, expiryVars>>

\* a PDF arrives and convertPdfToImages writes one image per page; with no
\* page the loop body never runs and the response is sent at once
ConvertPdf ==
    /\ ibPc = "idle"
    /\ mimeType' = "application/pdf"
    /\ \E n \in 0..MaxPages :
        /\ tempImages' = [i \in 1..n |-> i]
        /\ IF n = 0
           THEN /\ ibPc' = "done"
                /\ ibResponse' = ImportSucceeded(allItems, invoiceData)
                /\ files' = {}
           ELSE /\ ibPc' = "extract"
                /\ files' = {filePath} \cup (1..n)
                /\ UNCHANGED ibResponse
    /\ UNCHANGED <<page, text, allItems, invoiceData, parsedPages>>
    /\ UNCHANGED <<confirmVars, expiryVars>>

\* convertPdfToImages rejects
ConvertFails ==
    /\ ibPc = "idle"
    /\ mimeType' = "application/pdf"
    /\ ibPc' = "done"
    /\ \E m \in ConvertErrors : ibResponse' = ImportFailed(allItems, m)
    /\ files' = {}
    /\ UNCHANGED <<tempImages, page, text, allItems, invoiceData, parsedPages>>
    /\ UNCHANGED <<confirmVars, expiryVars>>

\* an image arrives: it is the only page
UseImage ==
    /\ ibPc = "idle"
    /\ \E m \in ImageTypes : mimeType' = m
    /\ ibPc' = "extract"
    /\ tempImages' = <<filePath>>
    /\ files' = {filePath}
    /\ UNCHANGED <<page, text, allItems, invoiceData, ibResponse, parsedPages>>
    /\ UNCHANGED <<confirmVars, expiryVars>>

\* neither a PDF nor an image
Unsupported ==
    /\ ibPc = "idle"
    /\ \E m \in OtherTypes : mimeType' = m
    /\ ibPc' = "done"
    /\ ibResponse' = ImportFailed(allItems, UnsupportedFileType)
    /\ files' = {}
    /\ UNCHANGED <<tempImages, page, text, allItems, invoiceData, parsedPages>>
    /\ UNCHANGED <<confirmVars, expiryVars>>

\* await extractTextFromImage(imgPath) returns the page's text
ExtractText ==
    /\ ibPc = "extract"
    /\ ibPc' = "parse"
    /\ \E t \in Texts : text' = t
    /\ UNCHANGED <<mimeType, files, tempImages, page, allItems, invoiceData, ibResponse,
                   parsedPages>>
    /\ UNCHANGED <<confirmVars, expiryVars>>

\* extractTextFromImage throws (the vision call failed, or the image could not
\* be read): the loop is left, the upload is deleted, the catch block answers
ExtractFails ==
    /\ ibPc = "extract"
    /\ ibPc' = "done"
    /\ \E m \in {ExtractionFailed} \cup ReadErrors :
        ibResponse' = ImportFailed(allItems, m)
    /\ files' = files \ {filePath}
    /\ UNCHANGED <<mimeType, tempImages, page, text, allItems, invoiceData, parsedPages>>
    /\ UNCHANGED <<confirmVars, expiryVars>>

\* await parseBillText(text), and the rest of the loop body; after the last
\* page the response is sent and the upload deleted
ParsePage ==
    /\ ibPc = "parse"
    /\ \E outcome \in ParseOutcomes :
        LET parsed == parseBillText(outcome)
            all == Accumulate(allItems, parsed.items)
            data == Adopt(invoiceData, parsed)
            imgPath == tempImages[page]
            left == IF imgPath # filePath THEN files \ {imgPath} ELSE files
        IN /\ allItems' = all
           /\ invoiceData' = data
           /\ parsedPages' = Append(parsedPages, [outcome |-> outcome, parsed |-> parsed])
           /\ IF page = Len(tempImages)
              THEN /\ ibPc' = "done"
                   /\ ibResponse' = ImportSucceeded(all, data)
                   /\ files' = left \ {filePath}
              ELSE /\ ibPc' = "extract"
                   /\ files' = left
                   /\ UNCHANGED ibResponse
    /\ page' = page + 1
    /\ UNCHANGED <<mimeType, tempImages, text>>
    /\ UNCHANGED <<confirmVars, expiryVars>>

\* importBill before a request
ImportIdle ==
    /\ ibPc = "idle"
    /\ mimeType = ""
    /\ files = {}
    /\ tempImages = <<>>
    /\ page = 1
    /\ text = ""
    /\ allItems = <<>>
    /\ invoiceData = NoInvoice
    /\ ibResponse = NoResponse
    /\ parsedPages = <<>>

(***************************************************************************)
(* A call of parseExpiryDate                                               *)
(***************************************************************************)
\* length up to which every text over DateChars is tried
MaxDateLen == 5

DateDigits == {"0", "1", "3", "5"}
DateChars == DateDigits \cup {"/", "-", "x"}

TextsUpTo(chars, n) == UNION { [1..m -> chars] : m \in 0..n }

\* YYYY-M and YYYY-MM texts, and some longer ones: dates, and no date
IsoTexts ==
    { y \o <<"-">> \o m : y \in [1..4 -> {"0", "2", "5"}],
                          m \in TextsUpTo(DateDigits, 2) \ {<<>>} }

LongTexts ==
    { <<"2", "0", "2", "6", "-", "0", "5", "-", "3", "1">>,
      <<"2", "0", "2", "6", "-", "0", "2", "-", "3", "0">>,
      <<"n", "o", "t", "-", "a", "-", "d", "a", "t", "e">> }

DateTexts == TextsUpTo(DateChars, MaxDateLen) \cup IsoTexts \cup LongTexts

\* the date-time string format every engine parses alike
IsDateFormat(cs) ==
    /\ Len(cs) = 10
    /\ \A i \in {1, 2, 3, 4, 6, 7, 9, 10} : IsDigit(cs[i])
    /\ cs[5] = "-" /\ cs[8] = "-"

\* a date an engine may read out of a text that is not in that format
\* ("5/5" is the fifth of May 2001 to some)
LenientDates == { <<2001, 5, 5>> }

\* what the call can return: for a text that reaches new Date(dateStr) and is
\* not in the date-time string format, the engine decides between an invalid
\* date and a date of its own reading
ExpiryResults(cs) ==
    IF cs # <<>> /\ ~ShortMatch(cs) /\ ~IsoMatch(cs) /\ ~IsDateFormat(cs)
    THEN {NoDate} \cup LenientDates
    ELSE {parseExpiryDate(cs)}

ParseExpiry ==
    /\ expiry = <<>>
    /\ \E d \in ExpiryResults(dateArg) : expiry' = <<d>>
    /\ UNCHANGED dateArg
    /\ UNCHANGED <<confirmVars, importVars>>

\* no call of parseExpiryDate under way
ExpiryIdle ==
    /\ dateArg = <<>>
    /\ expiry = <<>>

InitRequests ==
    /\ store \in InitStores
    /\ pc = [p \in Procs |-> "idle"]
    /\ reqStore = [p \in Procs |-> "S1"]
    /\ items = [p \in Procs |-> <<>>]
    /\ k = [p \in Procs |-> 1]
    /\ created = [p \in Procs |-> 0]
    /\ updated = [p \in Procs |-> 0]
    /\ exactBatchMatch = [p \in Procs |-> <<>>]
    /\ blueprint = [p \in Procs |-> <<>>]
    /\ response = [p \in Procs |-> NoResponse]
    /\ store0 = [p \in Procs |-> store]

\* requests served one after another
Init ==
    /\ InitRequests
    /\ active = {1}
    /\ budget = MaxImported
    /\ ImportIdle
    /\ ExpiryIdle

\* two requests served concurrently: their awaits interleave
InitConc ==
    /\ InitRequests
    /\ active = Procs
    /\ budget = MaxConcImported
    /\ ImportIdle
    /\ ExpiryIdle

Next ==
    \E p \in Procs :
        \/ Start(p)
        \/ InvalidRequest(p)
        \/ FindMany(p)
        \/ Update(p)
        \/ Create(p)
        \/ PersistenceFails(p)

Spec == Init /\ [][Next]_vars

SpecConc == InitConc /\ [][Next]_vars

\* no confirmImport request under way
ConfirmIdle ==
    /\ store = <<>>
    /\ active = {}
    /\ budget = 0
    /\ pc = [p \in Procs |-> "idle"]
    /\ reqStore = [p \in Procs |-> "S1"]
    /\ items = [p \in Procs |-> <<>>]
    /\ k = [p \in Procs |-> 1]
    /\ created = [p \in Procs |-> 0]
    /\ updated = [p \in Procs |-> 0]
    /\ exactBatchMatch = [p \in Procs |-> <<>>]
    /\ blueprint = [p \in Procs |-> <<>>]
    /\ response = [p \in Procs |-> NoResponse]
    /\ store0 = [p \in Procs |-> <<>>]

\* one importBill request
InitImport ==
    /\ ImportIdle
    /\ ConfirmIdle
    /\ ExpiryIdle

NextImport ==
    \/ NoFile
    \/ ConvertPdf
    \/ ConvertFails
    \/ UseImage
    \/ Unsupported
    \/ ExtractText
    \/ ExtractFails
    \/ ParsePage

SpecImport == InitImport /\ [][NextImport]_vars

\* one call of parseExpiryDate with a text of DateTexts
InitExpiry ==
    /\ dateArg \in DateTexts
    /\ expiry = <<>>
    /\ ConfirmIdle
    /\ ImportIdle

NextExpiry == ParseExpiry

SpecExpiry == InitExpiry /\ [][NextExpiry]_vars

(***************************************************************************)
(* What the claims are stated with                                         *)
(***************************************************************************)
\* the item request p is at
Item(p) == items[p][k[p]]

\* this step is the write of p's current item, on the update or the create path
UpdateStep(p) == pc[p] = "write" /\ updated'[p] = updated[p] + 1
CreateStep(p) == pc[p] = "write" /\ created'[p] = created[p] + 1

\* the rows of tbl that are the batch an item names: same store, same name
\* ignoring case, exactly the item's batch number
SameBatch(tbl, sid, item) ==
    { i \in Family(tbl, sid, item.medicine_name) : tbl[i].batchNumber = item.batch_number }

Succeeded(p) == pc[p] = "done" /\ response[p].status = 200

(***************************************************************************)
(* C1. On the update path the batch the lookup matched has the item's name  *)
(* (ignoring case) and exactly its batch number, and its stored quantity    *)
(* becomes the quantity it had plus the item's quantity, for every stored   *)
(* quantity >= 0 and item quantity >= 0: it does not decrease and is not    *)
(* replaced by the item's quantity.                                         *)
(***************************************************************************)
C1_AdditiveQuantity ==
    [][\A p \in Procs :
        UpdateStep(p) =>
            LET i == exactBatchMatch[p][1].id
                q == NumberOrZero(Item(p).quantity)
            IN /\ i \in SameBatch(store, reqStore[p], Item(p))
               /\ (store[i].quantity >= 0 /\ q >= 0) =>
                    /\ store'[i].quantity = store[i].quantity + q
                    /\ store'[i].quantity >= store[i].quantity]_vars

\* a request has added a positive quantity to a batch that had stock
C1_Witness ==
    \E p \in Procs :
        /\ Succeeded(p) /\ updated[p] >= 1
        /\ \E i \in DOMAIN store0[p] :
            /\ store0[p][i].quantity > 0
            /\ store[i].quantity > store0[p][i].quantity

(***************************************************************************)
(* Batch identity as the claims state it: the name compared ignoring case,  *)
(* the batch number compared exactly, an empty batch number ('' or unset)   *)
(* equal to an empty one.                                                   *)
(***************************************************************************)
EmptyBatch(b) == b \in {"", Null}

SameBatchNumber(a, b) == a = b \/ (EmptyBatch(a) /\ EmptyBatch(b))

BatchesOf(tbl, sid, name, batch) ==
    { i \in Family(tbl, sid, name) : SameBatchNumber(tbl[i].batchNumber, batch) }

SamePair(a, b) ==
    /\ EqualsInsensitive(a.medicine_name, b.medicine_name)
    /\ a.batch_number = b.batch_number

RECURSIVE SumQuantity(_)
SumQuantity(its) ==
    IF its = <<>> THEN 0 ELSE NumberOrZero(Head(its).quantity) + SumQuantity(Tail(its))

\* every item of p's list names the pair of the first one
OnePair(p) == \A j \in DOMAIN items[p] : SamePair(items[p][j], items[p][1])

(***************************************************************************)
(* C2. A request that reconciles N >= 1 items of one (name, batch number)   *)
(* pair, against a store that held no batch for the pair, creates on the    *)
(* first item and updates on every later one, and leaves exactly one batch  *)
(* for the pair whose quantity is the sum of the N quantities; for any      *)
(* batch number, the empty one included. (The code does not do this.)       *)
(***************************************************************************)
C2_SumOfQuantities ==
    \A p \in Procs :
        ( /\ Succeeded(p)
          /\ items[p] # <<>>
          /\ OnePair(p)
          /\ BatchesOf(store0[p], reqStore[p], items[p][1].medicine_name,
                       items[p][1].batch_number) = {} )
        => LET made == BatchesOf(store, reqStore[p], items[p][1].medicine_name,
                                 items[p][1].batch_number)
           IN /\ created[p] = 1
              /\ updated[p] = Len(items[p]) - 1
              /\ Cardinality(made) = 1
              /\ \A i \in made : store[i].quantity = SumQuantity(items[p])

(***************************************************************************)
(* C3. An item whose batch number is empty matches a batch of its name      *)
(* whose batch number is empty, also one stored as unset by an earlier      *)
(* create of an item with an empty batch number: the item is never put on   *)
(* the create path while such a batch exists. (The code does put it there.) *)
(***************************************************************************)
C3_EmptyMatchesEmpty ==
    [][\A p \in Procs :
        ( /\ CreateStep(p)
          /\ \A j \in 1..k[p] : items[p][j].batch_number = ""
          /\ \A i \in Family(store0[p], reqStore[p], Item(p).medicine_name) :
                store0[p][i].batchNumber # Null )
        => BatchesOf(store, reqStore[p], Item(p).medicine_name, "") = {}]_vars

\* what the item brings for a column that can be unset
SupplierOf(item) == IF Truthy(item.supplier) THEN item.supplier ELSE Null

\* the row the update path of p's current item writes to
Matched(p) == exactBatchMatch[p][1].id

\* on the update path a price above zero, a set expiry date and a set
\* manufacturer stay, and an empty one is taken from the item
FillOnlyStep(p) ==
    UpdateStep(p) =>
        LET old == store[Matched(p)]
            new == store'[Matched(p)]
            item == Item(p)
        IN /\ new.mrp = IF old.mrp > 0 THEN old.mrp ELSE NumberOrZero(item.mrp)
           /\ new.costPrice = IF old.costPrice > 0 THEN old.costPrice
                              ELSE NumberOrZero(item.rate)
           /\ new.sellingPrice = IF old.sellingPrice > 0 THEN old.sellingPrice
                                 ELSE NumberOrZero(item.mrp)
           /\ new.expiryDate = IF old.expiryDate # NoDate THEN old.expiryDate
                               ELSE ExpiryValue(item)
           /\ new.manufacturer = IF old.manufacturer # Null THEN old.manufacturer
                                 ELSE SupplierOf(item)

(***************************************************************************)
(* C4. Fill-only update: on the update path a price (mrp, costPrice,        *)
(* sellingPrice) above zero, a set expiry date and a set manufacturer are   *)
(* left as they are and an empty one is set from the item (mrp and          *)
(* sellingPrice from its mrp, costPrice from its rate, expiryDate from the  *)
(* parsed expiry, manufacturer from its supplier); and over any sequence of *)
(* imports the mrp of a batch, once nonzero, never changes. (The code lets  *)
(* a nonzero mrp change when it is negative.)                               *)
(***************************************************************************)
C4_FillOnly ==
    [][/\ \A p \in Procs : FillOnlyStep(p)
       /\ \A i \in DOMAIN store : store[i].mrp # 0 => store'[i].mrp = store[i].mrp]_vars

\* this step is the write of p's current item
WriteStep(p) == UpdateStep(p) \/ CreateStep(p)

\* the batch number as the table keeps it: an empty one is kept as unset
BatchOf(item) == IF Truthy(item.batch_number) THEN item.batch_number ELSE Null

(***************************************************************************)
(* C5. When no batch of the store has the item's name (ignoring case)       *)
(* together with exactly the item's batch number, the item takes the create *)
(* path, and the create path adds exactly one batch, to the request's       *)
(* store, with quantity = the item's quantity, batchNumber = the item's     *)
(* batch number (an empty one kept as unset), expiryDate = the parsed       *)
(* expiry, mrp = the item's mrp, costPrice = the item's rate, sellingPrice  *)
(* = the item's mrp and manufacturer = the item's supplier.                 *)
(***************************************************************************)
C5_CreatePath ==
    [][\A p \in Procs :
        /\ (WriteStep(p) /\ SameBatch(store, reqStore[p], Item(p)) = {}) => CreateStep(p)
        /\ CreateStep(p) =>
            /\ Len(store') = Len(store) + 1
            /\ \A i \in DOMAIN store : store'[i] = store[i]
            /\ LET new == store'[Len(store')]
                   item == Item(p)
               IN /\ new.storeId = reqStore[p]
                  /\ new.name = item.medicine_name
                  /\ new.quantity = NumberOrZero(item.quantity)
                  /\ new.batchNumber = BatchOf(item)
                  /\ new.expiryDate = ExpiryValue(item)
                  /\ new.mrp = NumberOrZero(item.mrp)
                  /\ new.costPrice = NumberOrZero(item.rate)
                  /\ new.sellingPrice = NumberOrZero(item.mrp)
                  /\ new.manufacturer = SupplierOf(item)]_vars

\* a request has created a batch whose selling price is its mrp and not its cost
C5_Witness ==
    \E p \in Procs :
        /\ Succeeded(p) /\ created[p] >= 1
        /\ LET new == store[Len(store)]
           IN /\ Len(store) > Len(store0[p])
              /\ new.sellingPrice = new.mrp
              /\ new.costPrice # new.mrp
              /\ new.mrp > 0

(***************************************************************************)
(* C6. A batch created by confirmImport takes category, unit and reorder    *)
(* level all three from one batch of its name family (same store, same name *)
(* ignoring case) as the family is when the item is processed, batches      *)
(* created earlier in the same import included, and takes "MEDICINE",       *)
(* "pcs" and 10 when that family is empty.                                  *)
(***************************************************************************)
C6_Blueprint ==
    [][\A p \in Procs :
        CreateStep(p) =>
            LET new == store'[Len(store')]
                fam == Family(store, reqStore[p], Item(p).medicine_name)
            IN IF fam = {}
               THEN /\ new.category = "MEDICINE"
                    /\ new.unit = "pcs"
                    /\ new.reorderLevel = 10
               ELSE \E i \in fam :
                    /\ new.category = store[i].category
                    /\ new.unit = store[i].unit
                    /\ new.reorderLevel = store[i].reorderLevel]_vars

\* one import has created two batches of a family: the second one inherited
\* from the family that the first one had joined, and neither took the defaults
C6_Witness ==
    \E p \in Procs :
        /\ Succeeded(p) /\ created[p] = 2
        /\ Len(store) = Len(store0[p]) + 2
        /\ Family(store0[p], reqStore[p], store[Len(store)].name) # {}
        /\ store[Len(store)].category = "CAPSULE"
        /\ store[Len(store)].unit = "box"
        /\ store[Len(store) - 1].category = "TABLET"

\* p's import of exactly two items that name one pair of which the store held
\* no batch when the request arrived has gone through
TwoOfNewPair(p) ==
    /\ Succeeded(p)
    /\ Len(items[p]) = 2
    /\ SamePair(items[p][1], items[p][2])
    /\ BatchesOf(store0[p], reqStore[p], items[p][1].medicine_name,
                 items[p][1].batch_number) = {}

PairBatches(p) ==
    BatchesOf(store, reqStore[p], items[p][1].medicine_name, items[p][1].batch_number)

(***************************************************************************)
(* C7 as claimed. When two items of one import name the same (name, batch   *)
(* number) pair, of which the store has no batch at the start of the run,   *)
(* both take the create path: the run ends with two batches for the pair    *)
(* and a created count of 2. (The code does this for the empty batch number *)
(* only.)                                                                   *)
(***************************************************************************)
C7_BothCreate ==
    \A p \in Procs :
        TwoOfNewPair(p) =>
            /\ created[p] = 2
            /\ updated[p] = 0
            /\ Cardinality(PairBatches(p)) = 2

(***************************************************************************)
(* C7 as amended. When two items of one import name the same (name, batch   *)
(* number) pair with a batch number that is not the empty string, and the   *)
(* store has no batch of the pair at the start of the run, the first item   *)
(* takes the create path and the second the update path: the run ends with  *)
(* one batch for the pair, holding both quantities, and counts created 1,   *)
(* updated 1.                                                               *)
(***************************************************************************)
C7_SecondUpdates ==
    \A p \in Procs :
        (TwoOfNewPair(p) /\ items[p][1].batch_number # "") =>
            /\ created[p] = 1
            /\ updated[p] = 1
            /\ Cardinality(PairBatches(p)) = 1
            /\ \A i \in PairBatches(p) :
                /\ i = Len(store0[p]) + 1
                /\ store[i].quantity = SumQuantity(items[p])

\* such an import of a pair that has a batch number has ended
C7_Witness ==
    \E p \in Procs :
        /\ TwoOfNewPair(p)
        /\ Truthy(items[p][1].batch_number)
        /\ SumQuantity(items[p]) > 0
        /\ created[p] = 1 /\ updated[p] = 1

(***************************************************************************)
(* C8. Two concurrent requests for one store can both look up a (name,      *)
(* batch number) pair that has no batch before either creates it, and then  *)
(* both create it: a request whose lookup found no match adds a batch when  *)
(* it writes, whatever the table holds by then, for no lock or transaction  *)
(* ties the lookup to the create. The witness is the state with the two     *)
(* batches.                                                                 *)
(***************************************************************************)
C8_CreateAfterStaleLookup ==
    [][\A p \in Procs :
        (pc[p] = "write" /\ exactBatchMatch[p] = <<>> /\ pc'[p] # "write"
                         /\ response'[p].status # 500)
        => /\ CreateStep(p)
           /\ Len(store') = Len(store) + 1
           /\ store'[Len(store')].name = Item(p).medicine_name
           /\ store'[Len(store')].batchNumber = BatchOf(Item(p))]_vars

\* both requests have created a batch of one pair that has a batch number,
\* which the store did not hold when either arrived
C8_Witness ==
    /\ \A p \in Procs : Succeeded(p) /\ Len(items[p]) = 1
    /\ SamePair(items[1][1], items[2][1])
    /\ Truthy(items[1][1].batch_number)
    /\ created[1] = 1 /\ created[2] = 1
    /\ store0[1] = store0[2]
    /\ Cardinality(BatchesOf(store, "S1", items[1][1].medicine_name,
                             items[1][1].batch_number)) = 2
    /\ BatchesOf(store0[1], "S1", items[1][1].medicine_name,
                 items[1][1].batch_number) = {}

Failed(p) == pc[p] = "done" /\ response[p].status = 500

(***************************************************************************)
(* C9. When a persistence call (lookup, create or update) fails for item k  *)
(* of an import, the failure itself changes nothing in the store, so every  *)
(* create and update applied for the items before k stays (no rollback);    *)
(* the items before k and no others have been processed; and the response   *)
(* is the failure "Failed to save inventory", which carries neither the     *)
(* counts nor any word on which items went through.                         *)
(***************************************************************************)
C9_FailureAborts ==
    [][\A p \in Procs :
        /\ Failed(p) => store' = store
        /\ Failed(p)' =>
            /\ store' = store
            /\ k'[p] \in DOMAIN items'[p]
            /\ created'[p] + updated'[p] = k'[p] - 1
            /\ Len(store') = Len(store0'[p]) + created'[p]
            /\ response'[p] = [status |-> 500, success |-> FALSE,
                               message |-> <<"Failed to save inventory">>]]_vars

\* an import has failed at its third item after creating one batch and updating
\* another, and both writes are in the store
C9_Witness ==
    \E p \in Procs :
        /\ Failed(p)
        /\ k[p] = 3
        /\ created[p] = 1 /\ updated[p] = 1
        /\ Len(store) = Len(store0[p]) + 1
        /\ \E i \in DOMAIN store0[p] : store[i] # store0[p][i]

(***************************************************************************)
(* C10. An import of n items that meets no persistence failure answers with *)
(* success and the counts created and updated, where created + updated = n, *)
(* created is the number of batches the run added to the store and updated  *)
(* the number of items that took the update path; the items are decided one *)
(* by one in input order, each against the store as the items before it     *)
(* left it: an item updates exactly when the store then holds a batch with  *)
(* its name (ignoring case) and exactly its batch number.                   *)
(***************************************************************************)
C10_Counts ==
    [][\A p \in Procs :
        /\ Succeeded(p)' =>
            /\ created'[p] + updated'[p] = Len(items'[p])
            /\ Len(store') = Len(store0'[p]) + created'[p]
            /\ response'[p].success
            /\ response'[p].message =
                <<"Import confirmed. ", created'[p], " new batches, ",
                  updated'[p], " stock updates.">>
        /\ WriteStep(p) =>
            /\ k'[p] = k[p] + 1
            /\ created'[p] + updated'[p] = k[p]
            /\ UpdateStep(p) <=> SameBatch(store, reqStore[p], Item(p)) # {}
            /\ Succeeded(p)' <=> k[p] = Len(items[p])]_vars

\* an import of three items has succeeded with one creation and two updates
C10_Witness ==
    \E p \in Procs :
        /\ Succeeded(p)
        /\ Len(items[p]) = 3
        /\ created[p] = 1 /\ updated[p] = 2
        /\ response[p].message[2] = 1 /\ response[p].message[4] = 2

(***************************************************************************)
(* Uniqueness of batches per (name, batch number) pair within a store       *)
(***************************************************************************)
\* no two batches of one store share a name (ignoring case) and a batch
\* number (an empty one equal to an empty one)
UniquePairs(tbl) ==
    \A i, j \in DOMAIN tbl :
        ( /\ i # j
          /\ tbl[i].storeId = tbl[j].storeId
          /\ EqualsInsensitive(tbl[i].name, tbl[j].name) )
        => ~SameBatchNumber(tbl[i].batchNumber, tbl[j].batchNumber)

\* an item list that names no pair twice
RepeatsNoPair(its) ==
    \A i, j \in DOMAIN its :
        ( /\ i # j
          /\ EqualsInsensitive(its[i].medicine_name, its[j].medicine_name) )
        => ~SameBatchNumber(its[i].batch_number, its[j].batch_number)

(***************************************************************************)
(* C11. Requests served one after another, each with an item list that      *)
(* names no (name, batch number) pair twice, keep the store free of two     *)
(* batches with the same name (ignoring case) and the same batch number     *)
(* (an empty one equal to an empty one): a write of such a request to a     *)
(* store that is free of them leaves it free of them. (The code does not:   *)
(* an item with batch number '' is created again beside the batch an        *)
(* earlier request created for it, which was stored with no batch number.)  *)
(***************************************************************************)
C11_UniquenessPreserved ==
    [][\A p \in Procs :
        ( /\ pc[p] = "write"
          /\ RepeatsNoPair(items[p])
          /\ UniquePairs(store0[p])
          /\ UniquePairs(store) )
        => UniquePairs(store')]_vars

(***************************************************************************)
(* What the importBill claims are stated with                               *)
(***************************************************************************)
ImportDone == ibPc = "done" /\ ibResponse.status = 200

\* the four metadata fields of a parsed page
MetadataOf(parsed) ==
    [invoiceNumber |-> parsed.invoiceNumber, invoiceDate |-> parsed.invoiceDate,
     supplierName |-> parsed.supplierName, totalAmount |-> parsed.totalAmount]

\* the page carries some invoice metadata: a field that is not empty
SuppliesMetadata(parsed) ==
    \/ JsTruthy(parsed.invoiceNumber)
    \/ JsTruthy(parsed.invoiceDate)
    \/ JsTruthy(parsed.supplierName)
    \/ JsTruthy(parsed.totalAmount)

\* the metadata of the earliest page of log that satisfies Has, if any
EarliestMetadata(log, Has(_)) ==
    LET S == { i \in DOMAIN log : Has(log[i].parsed) }
    IN IF S = {} THEN NoInvoice ELSE MetadataOf(log[SetMin(S)].parsed)

HasInvoiceNumber(parsed) == JsTruthy(parsed.invoiceNumber)

(***************************************************************************)
(* C12. The invoice metadata importBill returns is that of the earliest     *)
(* page, in page order, whose parsed bill supplies some non-empty metadata  *)
(* field, and metadata once adopted is changed by no later page. (The code  *)
(* does not: it adopts a page's metadata only when the page has an invoice  *)
(* number, so the supplier, date and total of a page without one are        *)
(* dropped, also when no other page supplies any.)                          *)
(***************************************************************************)
C12_FirstMetadataWins ==
    [][/\ invoiceData # NoInvoice => invoiceData' = invoiceData
       /\ ImportDone' =>
            ibResponse'.invoice = EarliestMetadata(parsedPages', SuppliesMetadata)]_vars

\* what the code does: the metadata kept is that of the earliest page whose
\* parsed bill has a non-empty invoiceNumber, and is empty while no page has one
FirstNumberWins ==
    [][/\ invoiceData # NoInvoice => invoiceData' = invoiceData
       /\ invoiceData' = EarliestMetadata(parsedPages', HasInvoiceNumber)
       /\ ImportDone' =>
            ibResponse'.invoice = EarliestMetadata(parsedPages', HasInvoiceNumber)]_vars

\* a three-page document answered: the first page named a supplier but no
\* invoice number, the second and the third each had an invoice number of their
\* own, and the metadata returned is the second page's
FirstNumberWinsReached ==
    /\ ImportDone
    /\ Len(parsedPages) = 3
    /\ SuppliesMetadata(parsedPages[1].parsed)
    /\ ~HasInvoiceNumber(parsedPages[1].parsed)
    /\ HasInvoiceNumber(parsedPages[2].parsed)
    /\ HasInvoiceNumber(parsedPages[3].parsed)
    /\ MetadataOf(parsedPages[3].parsed) # MetadataOf(parsedPages[2].parsed)
    /\ ibResponse.invoice = MetadataOf(parsedPages[2].parsed)

\* the step in which extractTextFromImage raises for the page the loop is at
ExtractionFailure == ibPc = "extract" /\ ibPc' = "done"

\* the step in which a file that is neither a PDF nor an image is turned down
UnsupportedFile == ibPc = "idle" /\ mimeType' \in OtherTypes

\* a failure response: status 500, a message, and no item list
FailureOnly(r) ==
    /\ r.status = 500
    /\ r.success = FALSE
    /\ DOMAIN r = {"status", "success", "message"}

(***************************************************************************)
(* C13. When extractTextFromImage raises for page k, or the file type is    *)
(* unsupported, importBill parses neither that page nor any later one: the  *)
(* request ends in that step, with a failure response that carries a        *)
(* message and no items, the items parsed from the pages before k           *)
(* included, and nothing is processed after it.                             *)
(***************************************************************************)
C13_ExtractionFailureAborts ==
    [][/\ ExtractionFailure =>
            /\ FailureOnly(ibResponse')
            /\ ibResponse'.message \in {ExtractionFailed} \cup ReadErrors
            /\ Len(parsedPages') = page - 1
       /\ UnsupportedFile =>
            /\ ibPc' = "done"
            /\ FailureOnly(ibResponse')
            /\ ibResponse'.message = UnsupportedFileType
            /\ parsedPages' = <<>>
       /\ ibPc = "done" => UNCHANGED importVars]_vars

\* the vision call failed on a later page of a document whose earlier pages
\* had yielded items, and the caller got the failure message alone
C13_Witness ==
    /\ ibPc = "done"
    /\ ibResponse.status = 500
    /\ ibResponse.message = ExtractionFailed
    /\ page > 1 /\ page <= Len(tempImages)
    /\ allItems # <<>>
    /\ Len(parsedPages) = page - 1

RECURSIVE ItemsOf(_)
\* the items of the parsed pages of a log, concatenated in page order
ItemsOf(log) ==
    IF log = <<>> THEN <<>>
    ELSE ItemsOf(SubSeq(log, 1, Len(log) - 1)) \o log[Len(log)].parsed.items

\* the page's reply is no JSON: no fenced block and no brace pair yields text
\* that JSON.parse accepts
Unparseable(entry) ==
    /\ entry.outcome[1] = "replied"
    /\ JsonParse(JsonStr(entry.outcome[2]))[1] = "error"

\* the pages of a log whose reply could be parsed
RECURSIVE ParseablePages(_)
ParseablePages(log) ==
    IF log = <<>> THEN <<>>
    ELSE IF Unparseable(Head(log)) THEN ParseablePages(Tail(log))
    ELSE <<Head(log)>> \o ParseablePages(Tail(log))

\* the items a response carries, without the normalized name
Extracted(data) ==
    [i \in DOMAIN data |->
        [medicine_name |-> data[i].original_name,
         quantity |-> data[i].quantity,
         batch_number |-> data[i].batch_number,
         expiry_date |-> data[i].expiry_date,
         mrp |-> data[i].mrp,
         rate |-> data[i].rate]]

(***************************************************************************)
(* C14. For a page whose reply cannot be parsed as JSON parseBillText       *)
(* returns an empty item list and no invoice metadata instead of raising;   *)
(* importBill goes on with the next page, and a document all of whose pages *)
(* were extracted is answered with success and with exactly the items of    *)
(* the other pages, in page order.                                          *)
(***************************************************************************)
C14_ParseDegradation ==
    [][/\ \A i \in DOMAIN parsedPages' :
            Unparseable(parsedPages'[i]) => parsedPages'[i].parsed = CatchResult
       /\ ( /\ ibPc = "parse"
            /\ Unparseable(parsedPages'[Len(parsedPages')]) )
          => /\ allItems' = allItems
             /\ invoiceData' = invoiceData
             /\ IF page < Len(tempImages)
                THEN ibPc' = "extract" /\ ibResponse' = NoResponse
                ELSE ImportDone'
       /\ ImportDone' =>
            Extracted(ibResponse'.data) = ItemsOf(ParseablePages(parsedPages'))]_vars

\* a three-page document answered with success: the second page's reply was
\* prose, the first and the third page had items, and the response carries
\* those of the first followed by those of the third
C14_Witness ==
    /\ ImportDone
    /\ Len(parsedPages) = 3
    /\ Unparseable(parsedPages[2])
    /\ parsedPages[2].outcome[2] = <<Prose>>
    /\ parsedPages[1].parsed.items # <<>>
    /\ parsedPages[3].parsed.items # <<>>
    /\ parsedPages[1].parsed.items # parsedPages[3].parsed.items
    /\ Extracted(ibResponse.data) =
            parsedPages[1].parsed.items \o parsedPages[3].parsed.items

\* the step in which the request to the parsing model itself fails
ParseCallRejected ==
    /\ ibPc = "parse"
    /\ parsedPages'[Len(parsedPages')].outcome[1] = "rejected"

(***************************************************************************)
(* C15. When the request to the parsing model fails (as opposed to the      *)
(* model replying with text that does not parse), parseBillText raises and  *)
(* importBill fails: the request ends in that step with a failure response, *)
(* and the page does not count as a page without items. (The code does not  *)
(* do this: the request is made inside the try block whose catch returns an *)
(* empty item list.)                                                        *)
(***************************************************************************)
C15_TransportFailurePropagates ==
    [][ParseCallRejected =>
            /\ ibPc' = "done"
            /\ FailureOnly(ibResponse')]_vars

(***************************************************************************)
(* C16. Every item parseBillText returns has quantity >= 0, mrp >= 0 and    *)
(* rate >= 0 as numbers, whatever the decoded JSON carried, and a           *)
(* medicine_name, batch_number and expiry_date that are strings. (The code  *)
(* lets a negative number, and negative numeric text, pass through.)        *)
(***************************************************************************)
C16_ItemsNonNegative ==
    \A i \in DOMAIN parsedPages :
        \A j \in DOMAIN parsedPages[i].parsed.items :
            LET item == parsedPages[i].parsed.items[j]
            IN /\ item.quantity \in Nat
               /\ item.mrp \in Nat
               /\ item.rate \in Nat
               /\ item.medicine_name \in Seq(STRING)
               /\ item.batch_number \in Seq(STRING)
               /\ item.expiry_date \in Seq(STRING)

\* what the code does: the three numbers are numbers, 0 for text that is no
\* number and for a missing value, and the three texts are strings, empty when
\* missing; a number given as batch number becomes its decimal text
ItemsCoerced ==
    \A i \in DOMAIN parsedPages :
        \A j \in DOMAIN parsedPages[i].parsed.items :
            LET item == parsedPages[i].parsed.items[j]
            IN /\ item.quantity \in Int
               /\ item.mrp \in Int
               /\ item.rate \in Int
               /\ item.medicine_name \in Seq(STRING)
               /\ item.batch_number \in Seq(STRING)
               /\ item.expiry_date \in Seq(STRING)

(***************************************************************************)
(* What the parseExpiryDate claim is stated with                            *)
(***************************************************************************)
\* the month and the year a text names under the MM/YY rule
ShortMonth(cs) == ParseInt(SubSeq(cs, 1, Len(cs) - 3))
ShortYear(cs) ==
    LET yy == ParseInt(SubSeq(cs, Len(cs) - 1, Len(cs)))
    IN IF yy < 50 THEN 2000 + yy ELSE 1900 + yy

\* the month and the year a text names under the YYYY-MM rule
IsoMonth(cs) == ParseInt(SubSeq(cs, 6, Len(cs)))
IsoYear(cs) == ParseInt(SubSeq(cs, 1, 4))

Returned == expiry # <<>>

(***************************************************************************)
(* C17. parseExpiryDate returns no date for the empty text; for a 1-2       *)
(* digit month, '/' or '-', and a 2-digit year yy the first day of that     *)
(* month of 2000+yy when yy < 50 and of 1900+yy otherwise; for a 4-digit    *)
(* year, '-' and a 1-2 digit month the first day of that month of that      *)
(* year; for any other text a date or no date; whatever month value the two *)
(* rules accept, the result lies in that month of that year. (The code      *)
(* lets months 0 and 13..99 carry into a neighbouring year, and reads the   *)
(* years 0000..0099 as 1900..1999.)                                         *)
(***************************************************************************)
C17_ExpiryRules ==
    Returned =>
        LET d == expiry[1] IN
        IF dateArg = <<>> THEN d = NoDate
        ELSE IF ShortMatch(dateArg)
        THEN d = <<ShortYear(dateArg), ShortMonth(dateArg), 1>>
        ELSE IF IsoMatch(dateArg)
        THEN d = <<IsoYear(dateArg), IsoMonth(dateArg), 1>>
        ELSE d = NoDate \/ Len(d) = 3

\* what the code does: the rules give the first day of the month named when
\* the month is one of 1..12 and, under the YYYY-MM rule, the year is not
\* below 100
ExpiryRulesInRange ==
    Returned =>
        LET d == expiry[1] IN
        IF dateArg = <<>> THEN d = NoDate
        ELSE IF ShortMatch(dateArg)
        THEN ShortMonth(dateArg) \in 1..12
                => d = <<ShortYear(dateArg), ShortMonth(dateArg), 1>>
        ELSE IF IsoMatch(dateArg)
        THEN (IsoMonth(dateArg) \in 1..12 /\ IsoYear(dateArg) >= 100)
                => d = <<IsoYear(dateArg), IsoMonth(dateArg), 1>>
        ELSE d = NoDate \/ Len(d) = 3

(***************************************************************************)
(* What the concurrency and frame claims are stated with                    *)
(***************************************************************************)
\* both requests have succeeded, each had one item, both arrived at the same
\* table, and both items name batch i of that table, which either updated
BothUpdated(i) ==
    /\ \A p \in Procs :
        /\ Succeeded(p)
        /\ Len(items[p]) = 1
        /\ updated[p] = 1
        /\ i \in SameBatch(store0[p], reqStore[p], items[p][1])
    /\ store0[1] = store0[2]

(***************************************************************************)
(* C18. When two concurrent requests each bring one item for the same       *)
(* existing batch, with quantities q1 and q2 and a stored quantity q0, the  *)
(* stored quantity is q0 + q1 + q2 once both have finished, under every     *)
(* interleaving, and no step lowers a stored quantity. (The code does not   *)
(* do this: each request writes the quantity it read plus its own, so the   *)
(* later write discards the earlier one.)                                   *)
(***************************************************************************)
C18_NoLostIncrement ==
    [][/\ \A i \in DOMAIN store : store'[i].quantity >= store[i].quantity
       /\ \A i \in DOMAIN store0[1] :
            BothUpdated(i)' =>
                store'[i].quantity =
                    store0'[1][i].quantity + NumberOrZero(items'[1][1].quantity)
                                           + NumberOrZero(items'[2][1].quantity)]_vars

\* the columns the update path does not write
Kept(row) ==
    [id |-> row.id, name |-> row.name, storeId |-> row.storeId, category |-> row.category,
     unit |-> row.unit, reorderLevel |-> row.reorderLevel, description |-> row.description]

\* the batches a step changes
Changed == { i \in DOMAIN store : store'[i] # store[i] }

(***************************************************************************)
(* C19. The write of one item changes at most one batch. On the update path *)
(* the table keeps its batches, only the matched batch changes, and its     *)
(* name, storeId, category, unit and reorderLevel stay; on the create path  *)
(* one batch of the request's store is added and every existing batch       *)
(* stays. A batch of another store is neither taken as the match nor        *)
(* changed, and no step removes a batch.                                    *)
(***************************************************************************)
C19_Frame ==
    [][/\ (\A p \in Procs : ~UpdateStep(p) /\ ~CreateStep(p)) => store' = store
       /\ \A p \in Procs :
        /\ UpdateStep(p) =>
            /\ Len(store') = Len(store)
            /\ Changed \subseteq {Matched(p)}
            /\ Kept(store'[Matched(p)]) = Kept(store[Matched(p)])
        /\ CreateStep(p) =>
            /\ Len(store') = Len(store) + 1
            /\ Changed = {}
            /\ store'[Len(store')].storeId = reqStore[p]
        /\ exactBatchMatch'[p] # <<>> => exactBatchMatch'[p][1].storeId = reqStore'[p]
        /\ (UpdateStep(p) \/ CreateStep(p)) =>
            \A i \in DOMAIN store :
                store[i].storeId # reqStore[p] => store'[i] = store[i]
       /\ Len(store') >= Len(store)]_vars

\* a request for store S1 has updated a batch and created one for a name and an
\* unset batch number that a batch of store S2 carries, and that batch is as it
\* was
C19_Witness ==
    \E p \in Procs :
        /\ Succeeded(p) /\ updated[p] >= 1 /\ created[p] >= 1
        /\ Len(store) > Len(store0[p])
        /\ \E i \in DOMAIN store0[p], j \in DOMAIN items[p] :
            /\ store0[p][i].storeId # reqStore[p]
            /\ EqualsInsensitive(store0[p][i].name, items[p][j].medicine_name)
            /\ store0[p][i].batchNumber = items[p][j].batch_number
            /\ store[i] = store0[p][i]
        /\ \E i \in DOMAIN store0[p] : store[i] # store0[p][i]

====
